---- MODULE Spec2Model ----
(***************************************************************************)
(* Model of the load-generation engine and analysis entry point of         *)
(* src/main.py (StressTester and PerformanceAnalyzer).                     *)
(*                                                                         *)
(* Time is counted in deciseconds (0.1 s): a latency of 1 is 0.1 s, the    *)
(* one-second sleep of the ramp-up driver is 10.                           *)
(***************************************************************************)
EXTENDS Integers, Sequences, FiniteSets, Bags, TLC

\* ------------------------------------------------------------------------
\* Python float (IEEE-754 binary64) arithmetic, as used by
\*     ramp_step = max_users / ramp_duration
\*     current_users = max(1, int(ramp_step * (second + 1)))
\* A float is [m |-> significand bits, most significant first, Prec of them,
\*             e |-> position of the binary point]
\* and denotes  SUM_i m[i] * 2^(e - i).
\* ------------------------------------------------------------------------

\* significand width of a Python float
Prec == 53

\* digits handled per step of the digit-serial algorithms below
ChunkOf(k) == IF k < 8 THEN k ELSE 8

RECURSIVE Pow2(_)
Pow2(n) == IF n = 0 THEN 1 ELSE 2 * Pow2(n - 1)

RECURSIVE BitLen(_)
\* number of binary digits of a natural number (0 for 0)
BitLen(n) == IF n = 0 THEN 0 ELSE 1 + BitLen(n \div 2)

\* the c low binary digits of n, most significant first
PadBits(n, c) == [i \in 1..c |-> (n \div Pow2(c - i)) % 2]

\* binary digits of a natural number, most significant first, no leading 0
IntBits(n) == PadBits(n, BitLen(n))

\* the element of a one-element set; {e(x) : x \in {v}} evaluates v once
The(S) == CHOOSE x \in S : TRUE

RECURSIVE BitsValue(_, _)
\* value of the first n digits of a bit string read as a natural number
BitsValue(b, n) == IF n = 0 THEN 0 ELSE 2 * BitsValue(b, n - 1) + b[n]

\* value of a bit string read as a natural number
BitsToInt(b) == BitsValue(b, Len(b))

\* b + 1 on bit strings; the result is one longer when b is all ones
BitInc(b) ==
    LET zeros == {i \in 1..Len(b) : b[i] = 0}
    IN  IF zeros = {}
        THEN [i \in 1..(Len(b) + 1) |-> IF i = 1 THEN 1 ELSE 0]
        ELSE LET j == CHOOSE i \in zeros : \A i2 \in zeros : i2 <= i
             IN  [i \in 1..Len(b) |->
                    IF i < j THEN b[i] ELSE IF i = j THEN 1 ELSE 0]

RECURSIVE LeadingZeros(_, _)
\* number of 0 digits after the binary point of rem / r, 0 < rem < r
LeadingZeros(rem, r) ==
    IF 2 * rem >= r THEN 0 ELSE 1 + LeadingZeros(2 * rem, r)

RECURSIVE FracBits(_, _, _)
\* the next k binary digits of rem / r (long division), rem < r
FracBits(rem, r, k) ==
    IF k = 0 THEN <<>>
    ELSE The({ PadBits(t \div r, c) \o FracBits(t % r, r, k - c) :
                 <<c, t>> \in {<<ChunkOf(k), rem * Pow2(ChunkOf(k))>>} })

RECURSIVE FracRem(_, _, _)
\* the remainder left after k digits of the long division of rem / r
FracRem(rem, r, k) ==
    IF k = 0 THEN rem
    ELSE The({ FracRem(t % r, r, k - c) :
                 <<c, t>> \in {<<ChunkOf(k), rem * Pow2(ChunkOf(k))>>} })

\* round-to-nearest, ties-to-even: bits are the Prec leading digits, e the
\* binary point, up says the discarded tail is above half (or is exactly half
\* with an odd last digit)
RoundFloat(bits, e, up) ==
    IF ~up THEN [m |-> bits, e |-> e]
    ELSE The({ IF Len(inc) > Prec
               THEN [m |-> SubSeq(inc, 1, Prec), e |-> e + 1]
               ELSE [m |-> inc, e |-> e] : inc \in {BitInc(bits)} })

\* a / b for integers a >= 1, b >= 1, correctly rounded to binary64
FloatDiv(a, b) ==
    LET q0   == a \div b
        ib   == IntBits(q0)
        z    == IF q0 = 0 THEN LeadingZeros(a, b) ELSE 0
        rem0 == IF q0 = 0 THEN a * Pow2(z) ELSE a % b
        k    == Prec - Len(ib)
        e    == IF q0 = 0 THEN 0 - z ELSE Len(ib)
    IN  The({ RoundFloat(bits, e,
                         \/ 2 * rem > b
                         \/ (2 * rem = b /\ bits[Prec] = 1)) :
                <<bits, rem>> \in
                    {<<ib \o FracBits(rem0, b, k), FracRem(rem0, b, k)>>} })

RECURSIVE MulBits(_, _, _)
\* exact product of a bit string and a natural number k (carry from the right)
MulBits(b, k, carry) ==
    IF Len(b) = 0 THEN IntBits(carry)
    ELSE The({ MulBits(rest, k, t \div Pow2(c)) \o PadBits(t % Pow2(c), c) :
                 <<c, rest, t>> \in
                    {<<ChunkOf(Len(b)),
                       SubSeq(b, 1, Len(b) - ChunkOf(Len(b))),
                       BitsToInt(SubSeq(b, Len(b) - ChunkOf(Len(b)) + 1, Len(b)))
                           * k + carry>>} })

\* f * k for a float f > 0 and an integer k >= 1, correctly rounded
FloatMulInt(f, k) ==
    The({ LET n     == Len(p)
              guard == n > Prec /\ p[Prec + 1] = 1
              stick == \E j \in (Prec + 2)..n : p[j] = 1
          IN  RoundFloat(SubSeq(p, 1, Prec), f.e + (n - Prec),
                         guard /\ (stick \/ p[Prec] = 1)) :
            p \in {MulBits(f.m, k, 0)} })

\* int(f): truncation toward zero of a float f > 0
FloatTrunc(f) ==
    IF f.e <= 0 THEN 0
    ELSE IF f.e >= Prec THEN BitsToInt(f.m) * Pow2(f.e - Prec)
    ELSE BitsToInt(SubSeq(f.m, 1, f.e))

Max(a, b) == IF a >= b THEN a ELSE b

\* current_users of ramp step `second` (0-indexed), ramp_duration >= 1
CurrentUsers(max_users, ramp_duration, second) ==
    The({ Max(1, users) :
            users \in { FloatTrunc(x) :
              x \in { FloatMulInt(ramp_step, second + 1) :
                ramp_step \in {FloatDiv(max_users, ramp_duration)} } } })

\* ------------------------------------------------------------------------
\* Bounds of the model
\* ------------------------------------------------------------------------

\* largest num_requests of a sequential or concurrent run
MaxRequests == 3
\* largest max_workers of a concurrent run
MaxWorkers == 2
\* largest max_users of a ramp-up run
MaxUsers == 2
\* largest ramp_duration of a ramp-up run
MaxRamp == 2
\* largest test_duration (sustain phase) of a ramp-up run
MaxSustain == 1
\* largest number of requests a ramp-up run may plan in total
MaxPlanned == 5
\* largest max_users for which the ramp levels are tabulated
MaxLevelUsers == 4
\* largest ramp_duration for which the ramp levels are tabulated
MaxLevelRamp == 49
\* largest number of results in a report that is finalized twice
MaxFinalized == 6
\* largest pacing delay of the ten-request sequential scenario, deciseconds
MaxDelay == 5
\* largest number of results handed to the trend analysis on its own
MaxTrendResults == 3

\* ------------------------------------------------------------------------
\* The target server and the HTTP client
\* ------------------------------------------------------------------------

\* what the target does with one GET: it answers with a status code, the
\* transport fails (requests raises), or it never answers
Behaviours ==
    { [kind |-> "response",  status |-> 200, error |-> "", latency |-> 1],
      [kind |-> "exception", status |-> 0,
       error |-> "Connection refused", latency |-> 1],
      [kind |-> "hang",      status |-> 0, error |-> "", latency |-> 0] }

\* setup_session(timeout=30): the value stored in self.session.timeout
SessionTimeout == 300

\* the timeout that self.session.get(url) is called with: the call passes no
\* timeout argument, and requests does not read a Session.timeout attribute
GetTimeout == "None"

\* make_request comes back from session.get: always for an answer or a
\* transport failure, for a silent server only when the call has a timeout
Returns(b) == b.kind # "hang" \/ GetTimeout # "None"

\* the TestResult make_request returns for a request started at time ts
\* (id and batch are history fields: the issue number of the request and the
\* tick it belongs to)
MakeResult(b, ts, id, batch) ==
    IF b.kind = "response"
    THEN [status_code |-> b.status, response_time |-> b.latency,
          timestamp |-> ts, error |-> "", id |-> id, batch |-> batch]
    ELSE IF b.kind = "exception"
    THEN [status_code |-> 0, response_time |-> b.latency,
          timestamp |-> ts, error |-> b.error, id |-> id, batch |-> batch]
    ELSE [status_code |-> 0, response_time |-> SessionTimeout,
          timestamp |-> ts, error |-> "Read timed out",
          id |-> id, batch |-> batch]

\* ------------------------------------------------------------------------
\* TestReport and its two mutators
\* ------------------------------------------------------------------------

\* TestReport(): the dataclass defaults
EmptyReport ==
    [total_requests |-> 0, successful_requests |-> 0, failed_requests |-> 0,
     response_times |-> <<>>, status_codes |-> <<>>, errors |-> <<>>,
     start_time |-> 0, end_time |-> 0,
     requests_per_second |-> [num |-> 0, den |-> 1],
     results |-> <<>>, peak_rps |-> 0, slowest_requests |-> <<>>]

\* _update_report with the success counter outside the else branch
UpdateReportCountsTwice(rep, result) ==
    LET failed == result.status_code = 0
        sc     == result.status_code
    IN  [rep EXCEPT
          !.total_requests = @ + 1,
          !.response_times = Append(@, result.response_time),
          !.results = Append(@, result),
          !.failed_requests = IF failed THEN @ + 1 ELSE @,
          !.errors = IF failed THEN Append(@, result.error) ELSE @,
          !.successful_requests = @ + 1,
          !.status_codes = IF sc \in DOMAIN @
                           THEN [@ EXCEPT ![sc] = @ + 1]
                           ELSE [c \in (DOMAIN @) \cup {sc} |->
                                   IF c = sc THEN 1 ELSE @[c]]]

\* _update_report with results.insert(0, result) for results.append(result)
UpdateReportPrepends(rep, result) ==
    LET failed == result.status_code = 0
        sc     == result.status_code
    IN  [rep EXCEPT
          !.total_requests = @ + 1,
          !.response_times = <<result.response_time>> \o @,
          !.results = <<result>> \o @,
          !.failed_requests = IF failed THEN @ + 1 ELSE @,
          !.errors = IF failed THEN Append(@, result.error) ELSE @,
          !.successful_requests = IF failed THEN @ ELSE @ + 1,
          !.status_codes = IF sc \in DOMAIN @
                           THEN [@ EXCEPT ![sc] = @ + 1]
                           ELSE [c \in (DOMAIN @) \cup {sc} |->
                                   IF c = sc THEN 1 ELSE @[c]]]

\* _update_report(report, result)
UpdateReport(rep, result) ==
    LET failed == result.status_code = 0
        sc     == result.status_code
    IN  [rep EXCEPT
          !.total_requests = @ + 1,
          !.response_times = Append(@, result.response_time),
          !.results = Append(@, result),
          !.failed_requests = IF failed THEN @ + 1 ELSE @,
          !.errors = IF failed THEN Append(@, result.error) ELSE @,
          !.successful_requests = IF failed THEN @ ELSE @ + 1,
          !.status_codes = IF sc \in DOMAIN @
                           THEN [@ EXCEPT ![sc] = @ + 1]
                           ELSE [c \in (DOMAIN @) \cup {sc} |->
                                   IF c = sc THEN 1 ELSE @[c]]]

\* sorted(results, key=response_time, reverse=True): a stable sort
SortedSlowestFirst(results) ==
    LET n == Len(results)
        rank(i) == Cardinality({j \in 1..n :
                      \/ results[j].response_time > results[i].response_time
                      \/ /\ results[j].response_time = results[i].response_time
                         /\ j < i}) + 1
    IN  [k \in 1..n |-> results[CHOOSE i \in 1..n : rank(i) = k]]

\* s[:k]
Take(s, k) == SubSeq(s, 1, IF Len(s) < k THEN Len(s) ELSE k)

\* _finalize_report with slowest_requests += sorted_results[:5]
FinalizeReportExtends(rep) ==
    LET total_time == rep.end_time - rep.start_time
    IN  [rep EXCEPT
          !.requests_per_second =
              IF total_time > 0
              THEN [num |-> 10 * rep.total_requests, den |-> total_time]
              ELSE [num |-> 0, den |-> 1],
          !.slowest_requests =
              @ \o Take(SortedSlowestFirst(rep.results), 5)]

\* _finalize_report(report); requests per second is kept as the fraction
\* num / den (10 * requests over deciseconds)
FinalizeReport(rep) ==
    LET total_time == rep.end_time - rep.start_time
    IN  [rep EXCEPT
          !.requests_per_second =
              IF total_time > 0
              THEN [num |-> 10 * rep.total_requests, den |-> total_time]
              ELSE [num |-> 0, den |-> 1],
          !.slowest_requests = Take(SortedSlowestFirst(rep.results), 5)]


\* ------------------------------------------------------------------------
\* State
\* ------------------------------------------------------------------------

VARIABLES
    mode,       \* which driver runs: "sequential", "concurrent", "ramp"
    args,       \* the driver's arguments, by their names in the source
    pc,         \* position of the orchestrating control flow
    second,     \* loop variable (i of sequential_test, second of ramp_up_test)
    report,     \* the TestReport of the run
    futures,    \* the futures of the current batch (one, for sequential)
    pool,       \* max_workers of the current ThreadPoolExecutor
    now,        \* time.time(), in deciseconds
    raised,     \* the exception that escaped, "" when none
    analysis,   \* what print_enhanced_report computed
    actor,      \* history: who took the last step, "main" or "worker"
    issued,     \* history: number of requests issued so far
    levels,     \* history: current_users of each ramp step so far
    batches,    \* history: size of every batch submitted so far
    plan        \* history: what the server does with each request issued

vars == <<mode, args, pc, second, report, futures, pool, now, raised,
          analysis, actor, issued, levels, batches, plan>>

RECURSIVE SumFirst(_, _)
SumFirst(s, n) == IF n = 0 THEN 0 ELSE s[n] + SumFirst(s, n - 1)

\* sum(s)
SumSeq(s) == SumFirst(s, Len(s))

\* the requests a ramp-up run plans: the ramp steps, then the sustain ticks
RampLevels(max_users, ramp_duration) ==
    [s \in 1..ramp_duration |-> CurrentUsers(max_users, ramp_duration, s - 1)]

PlannedRamp(a) ==
    SumSeq(RampLevels(a.max_users, a.ramp_duration))
        + a.test_duration * a.max_users

NoArgs == [num_requests |-> 0, delay |-> 0, max_workers |-> 0,
           max_users |-> 0, ramp_duration |-> 0, test_duration |-> 0]

SequentialArgs ==
    { [NoArgs EXCEPT !.num_requests = n, !.delay = d] :
        n \in 0..MaxRequests, d \in {0, 1} }

ConcurrentArgs ==
    { [NoArgs EXCEPT !.num_requests = n, !.max_workers = w] :
        n \in 0..MaxRequests, w \in 1..MaxWorkers }

RampArgs ==
    { a \in { [NoArgs EXCEPT !.max_users = u, !.ramp_duration = r,
                             !.test_duration = t] :
                u \in 1..MaxUsers, r \in 0..MaxRamp, t \in 0..MaxSustain } :
        PlannedRamp(a) <= MaxPlanned }

Init ==
    /\ mode \in {"sequential", "concurrent", "ramp"}
    /\ args \in CASE mode = "sequential" -> SequentialArgs
              [] mode = "concurrent" -> ConcurrentArgs
              [] mode = "ramp"       -> RampArgs
    /\ pc = "start"
    /\ second = 0
    /\ report = EmptyReport
    /\ futures = <<>>
    /\ pool = 0
    /\ now = 0
    /\ raised = ""
    /\ analysis = [done |-> FALSE]
    /\ actor = "main"
    /\ issued = 0
    /\ levels = <<>>
    /\ batches = <<>>
    /\ plan = <<>>

\* ------------------------------------------------------------------------
\* Futures and the thread pool
\* ------------------------------------------------------------------------

\* executor.submit(self.make_request) for n requests whose fate the server
\* decides by fate; the requests get the issue numbers first+1 .. first+n
NewFutures(n, fate, first, batch) ==
    [i \in 1..n |-> [state |-> "PENDING", behaviour |-> fate[i],
                     timestamp |-> 0, id |-> first + i, batch |-> batch]]

Running == {i \in 1..Len(futures) : futures[i].state = "RUNNING"}
Pending == {i \in 1..Len(futures) : futures[i].state = "PENDING"}

\* the batch is left as soon as one future has been recorded
BatchDrainedAny ==
    \/ Len(futures) = 0
    \/ \E i \in 1..Len(futures) : futures[i].state = "RECORDED"

\* every future of the batch has been taken from as_completed and recorded
BatchDrained == \A i \in 1..Len(futures) : futures[i].state = "RECORDED"

Collecting == pc \in {"conc_collect", "ramp_collect", "sustain_collect"}

\* future.result()
FutureResult(f) == MakeResult(f.behaviour, f.timestamp, f.id, f.batch)

\* a pool thread takes the oldest queued work item and enters make_request,
\* which reads the clock before it calls session.get
WorkerStart(i) ==
    /\ Collecting
    /\ i \in Pending
    /\ \A j \in Pending : i <= j
    /\ Cardinality(Running) < pool
    /\ futures' = [futures EXCEPT ![i].state = "RUNNING",
                                  ![i].timestamp = now]
    /\ actor' = "worker"
    /\ UNCHANGED <<mode, args, pc, second, report, pool, now, raised,
                   analysis, issued, levels, batches, plan>>

\* make_request writing its result into the shared report from the pool thread
WorkerReturnRecords(i) ==
    /\ Collecting
    /\ i \in Running
    /\ Returns(futures[i].behaviour)
    /\ futures' = [futures EXCEPT ![i].state = "RECORDED"]
    /\ report' = UpdateReport(report, FutureResult(futures[i]))
    /\ now' = Max(now, futures[i].timestamp + futures[i].behaviour.latency)
    /\ actor' = "worker"
    /\ UNCHANGED <<mode, args, pc, second, pool, raised,
                   analysis, issued, levels, batches, plan>>

\* session.get comes back in a pool thread: make_request returns its
\* TestResult, which becomes the result of the future
WorkerReturn(i) ==
    /\ Collecting
    /\ i \in Running
    /\ Returns(futures[i].behaviour)
    /\ futures' = [futures EXCEPT ![i].state = "FINISHED"]
    /\ now' = Max(now, futures[i].timestamp + futures[i].behaviour.latency)
    /\ actor' = "worker"
    /\ UNCHANGED <<mode, args, pc, second, report, pool, raised,
                   analysis, issued, levels, batches, plan>>

\* the loop body recording one finished future and discarding the others
\* that had finished by then
CollectDrainsAll(i) ==
    /\ Collecting
    /\ i \in 1..Len(futures)
    /\ futures[i].state = "FINISHED"
    /\ report' = UpdateReport(report, FutureResult(futures[i]))
    /\ futures' = [j \in 1..Len(futures) |->
                     IF futures[j].state = "FINISHED"
                     THEN [futures[j] EXCEPT !.state = "RECORDED"]
                     ELSE futures[j]]
    /\ actor' = "main"
    /\ UNCHANGED <<mode, args, pc, second, pool, now, raised,
                   analysis, issued, levels, batches, plan>>

\* one iteration of `for future in as_completed(futures)`: the orchestrator
\* takes a finished future and records its result
Collect(i) ==
    /\ Collecting
    /\ i \in 1..Len(futures)
    /\ futures[i].state = "FINISHED"
    /\ report' = UpdateReport(report, FutureResult(futures[i]))
    /\ futures' = [futures EXCEPT ![i].state = "RECORDED"]
    /\ actor' = "main"
    /\ UNCHANGED <<mode, args, pc, second, pool, now, raised,
                   analysis, issued, levels, batches, plan>>


\* ------------------------------------------------------------------------
\* The three drivers
\* ------------------------------------------------------------------------

\* the head of each driver: setup_session(), report = TestReport(),
\* report.start_time = time.time(); ramp_up_test then divides max_users by
\* ramp_duration (ZeroDivisionError when ramp_duration is 0)
Start ==
    /\ pc = "start"
    /\ report' = [EmptyReport EXCEPT !.start_time = now]
    /\ IF mode = "ramp" /\ args.ramp_duration = 0
       THEN /\ raised' = "ZeroDivisionError"
            /\ pc' = "raised"
       ELSE /\ raised' = raised
            /\ pc' = CASE mode = "sequential" ->
                            IF args.num_requests > 0 THEN "seq_loop"
                                                     ELSE "finalize"
                       [] mode = "concurrent" -> "conc_submit"
                       [] mode = "ramp"       -> "ramp_loop"
    /\ actor' = "main"
    /\ UNCHANGED <<mode, args, second, futures, pool, now, analysis,
                   issued, levels, batches, plan>>

\* sequential_test: result = self.make_request() is entered; the request is
\* on the wire
SeqIssue ==
    /\ pc = "seq_loop"
    /\ \E b \in Behaviours :
          futures' = << [state |-> "RUNNING", behaviour |-> b,
                         timestamp |-> now, id |-> issued + 1,
                         batch |-> second + 1] >>
    /\ issued' = issued + 1
    /\ batches' = Append(batches, 1)
    /\ plan' = Append(plan, futures'[1].behaviour)
    /\ pc' = "seq_wait"
    /\ actor' = "main"
    /\ UNCHANGED <<mode, args, second, report, pool, now, raised,
                   analysis, levels>>

\* the sequential loop breaking out on the first failed request
SeqRecordStopsOnFailure ==
    /\ pc = "seq_wait"
    /\ Returns(futures[1].behaviour)
    /\ report' = UpdateReport(report, FutureResult(futures[1]))
    /\ now' = now + futures[1].behaviour.latency
                  + (IF args.delay > 0 THEN args.delay ELSE 0)
    /\ futures' = <<>>
    /\ second' = second + 1
    /\ pc' = IF /\ second + 1 < args.num_requests
                /\ FutureResult(futures[1]).status_code # 0
             THEN "seq_loop" ELSE "finalize"
    /\ actor' = "main"
    /\ UNCHANGED <<mode, args, pool, raised, analysis, issued, levels,
                   batches, plan>>

\* sequential_test: make_request returns, the result is recorded, the
\* driver sleeps for delay when delay > 0 and goes round the loop
SeqRecord ==
    /\ pc = "seq_wait"
    /\ Returns(futures[1].behaviour)
    /\ report' = UpdateReport(report, FutureResult(futures[1]))
    /\ now' = now + futures[1].behaviour.latency
                  + (IF args.delay > 0 THEN args.delay ELSE 0)
    /\ futures' = <<>>
    /\ second' = second + 1
    /\ pc' = IF second + 1 < args.num_requests THEN "seq_loop" ELSE "finalize"
    /\ actor' = "main"
    /\ UNCHANGED <<mode, args, pool, raised, analysis, issued, levels,
                   batches, plan>>

\* a batch of n futures is submitted to a fresh pool of the given width
SubmitBatch(n, width, nextpc) ==
    /\ \E fate \in [1..n -> Behaviours] :
          /\ futures' = NewFutures(n, fate, issued, Len(batches) + 1)
          /\ plan' = plan \o fate
    /\ pool' = width
    /\ issued' = issued + n
    /\ batches' = Append(batches, n)
    /\ pc' = nextpc
    /\ actor' = "main"

\* concurrent_test: the executor is created and all requests are submitted
ConcSubmit ==
    /\ pc = "conc_submit"
    /\ SubmitBatch(args.num_requests, args.max_workers, "conc_collect")
    /\ UNCHANGED <<mode, args, second, report, now, raised, analysis,
                   levels>>

\* ramp_up_test, phase 1: one step of the ramp
RampSubmit ==
    /\ pc = "ramp_loop"
    /\ \E current_users \in
              {CurrentUsers(args.max_users, args.ramp_duration, second)} :
          /\ SubmitBatch(current_users, current_users, "ramp_collect")
          /\ levels' = Append(levels, current_users)
    /\ UNCHANGED <<mode, args, second, report, now, raised, analysis>>

\* ramp_up_test, phase 2: one tick of sustained load
SustainSubmit ==
    /\ pc = "sustain_loop"
    /\ SubmitBatch(args.max_users, args.max_users, "sustain_collect")
    /\ UNCHANGED <<mode, args, second, report, now, raised, analysis,
                   levels>>

\* the as_completed loop is exhausted and the `with` block is left; the
\* ramp-up driver then sleeps one second and steps its loop
BatchEnd ==
    /\ Collecting
    /\ BatchDrained
    /\ futures' = <<>>
    /\ pool' = 0
    /\ CASE pc = "conc_collect" ->
              /\ pc' = "finalize"
              /\ UNCHANGED <<second, now>>
         [] pc = "ramp_collect" ->
              /\ now' = now + 10
              /\ IF second + 1 < args.ramp_duration
                 THEN /\ second' = second + 1
                      /\ pc' = "ramp_loop"
                 ELSE /\ second' = 0
                      /\ pc' = IF args.test_duration > 0 THEN "sustain_loop"
                                                         ELSE "finalize"
         [] pc = "sustain_collect" ->
              /\ now' = now + 10
              /\ second' = second + 1
              /\ pc' = IF second + 1 < args.test_duration THEN "sustain_loop"
                                                          ELSE "finalize"
    /\ actor' = "main"
    /\ UNCHANGED <<mode, args, report, raised, analysis, issued, levels,
                   batches, plan>>

\* the tail of each driver: report.end_time = time.time(),
\* self._finalize_report(report), return report
Finish ==
    /\ pc = "finalize"
    /\ report' = FinalizeReport([report EXCEPT !.end_time = now])
    /\ pc' = "done"
    /\ actor' = "main"
    /\ UNCHANGED <<mode, args, second, futures, pool, now, raised,
                   analysis, issued, levels, batches, plan>>

\* ------------------------------------------------------------------------
\* PerformanceAnalyzer.  Averages and rates are fractions of integers and
\* every comparison is cross-multiplied: an average latency is sum / n
\* deciseconds, a success rate is 100 * ok / n, a throughput is num / den.
\* ------------------------------------------------------------------------

\* calculate_performance_grade(avg_response_time, success_rate, rps) with
\* avg_response_time = rt_sum / rt_n, success_rate = 100 * ok / total
PerformanceGrade(rt_sum, rt_n, ok, total, rps) ==
    LET rt_score == IF rt_sum < 2 * rt_n THEN 40
                    ELSE IF rt_sum < 5 * rt_n THEN 35
                    ELSE IF rt_sum < 10 * rt_n THEN 25
                    ELSE IF rt_sum < 20 * rt_n THEN 15
                    ELSE 5
        sr_score == IF 200 * ok >= 199 * total THEN 40
                    ELSE IF 100 * ok >= 95 * total THEN 35
                    ELSE IF 100 * ok >= 90 * total THEN 25
                    ELSE IF 100 * ok >= 75 * total THEN 15
                    ELSE 5
        tp_score == IF rps.num >= 50 * rps.den THEN 20
                    ELSE IF rps.num >= 20 * rps.den THEN 18
                    ELSE IF rps.num >= 10 * rps.den THEN 15
                    ELSE IF rps.num >= 5 * rps.den THEN 10
                    ELSE 5
        score == rt_score + sr_score + tp_score
    IN  IF score >= 90 THEN "A+ (Excellent)"
        ELSE IF score >= 80 THEN "A (Very Good)"
        ELSE IF score >= 70 THEN "B (Good)"
        ELSE IF score >= 60 THEN "C (Fair)"
        ELSE IF score >= 50 THEN "D (Poor)"
        ELSE "F (Critical)"

RECURSIVE SumSquaresFirst(_, _)
SumSquaresFirst(s, n) ==
    IF n = 0 THEN 0 ELSE s[n] * s[n] + SumSquaresFirst(s, n - 1)

\* sum(x * x for x in s)
SumSquares(s) == SumSquaresFirst(s, Len(s))

\* the error texts that contain the substring "Connection"
MentionsConnection(text) == text \in {"Connection refused"}

\* identify_bottlenecks with `requests_per_second <= 5` for `< 5`
IdentifyBottlenecksInclusive(rep) ==
    IF Len(rep.response_times) = 0 THEN <<"No response data available">>
    ELSE
    LET n   == Len(rep.response_times)
        sum == SumSeq(rep.response_times)
        sq  == SumSquares(rep.response_times)
        ok  == rep.successful_requests
        tot == rep.total_requests
        rps == rep.requests_per_second
        rt  == IF sum > 20 * n
               THEN <<"HIGH_RESPONSE_TIME">>
               ELSE IF sum > 10 * n THEN <<"MODERATE_RESPONSE_TIME">>
               ELSE <<>>
        sr  == IF 100 * ok < 90 * tot
               THEN <<"LOW_SUCCESS_RATE">>
               ELSE IF 100 * ok < 95 * tot THEN <<"MODERATE_FAILURES">>
               ELSE <<>>
        tp  == IF rps.num <= 5 * rps.den THEN <<"LOW_THROUGHPUT">> ELSE <<>>
        \* stdev > 0.5 * mean, squared and cleared of denominators
        var == IF n > 1 /\ 4 * n * (n * sq - sum * sum) > (n - 1) * sum * sum
               THEN <<"HIGH_VARIABILITY">>
               ELSE <<>>
        con == IF \E i \in 1..Len(rep.errors) : MentionsConnection(rep.errors[i])
               THEN <<"CONNECTION_ISSUES">>
               ELSE <<>>
        all == rt \o sr \o tp \o var \o con
    IN  IF Len(all) = 0 THEN <<"NO_MAJOR_BOTTLENECKS">> ELSE all

\* identify_bottlenecks(report)
IdentifyBottlenecks(rep) ==
    IF Len(rep.response_times) = 0 THEN <<"No response data available">>
    ELSE
    LET n   == Len(rep.response_times)
        sum == SumSeq(rep.response_times)
        sq  == SumSquares(rep.response_times)
        ok  == rep.successful_requests
        tot == rep.total_requests
        rps == rep.requests_per_second
        rt  == IF sum > 20 * n
               THEN <<"HIGH_RESPONSE_TIME">>
               ELSE IF sum > 10 * n THEN <<"MODERATE_RESPONSE_TIME">>
               ELSE <<>>
        sr  == IF 100 * ok < 90 * tot
               THEN <<"LOW_SUCCESS_RATE">>
               ELSE IF 100 * ok < 95 * tot THEN <<"MODERATE_FAILURES">>
               ELSE <<>>
        tp  == IF rps.num < 5 * rps.den THEN <<"LOW_THROUGHPUT">> ELSE <<>>
        \* stdev > 0.5 * mean, squared and cleared of denominators
        var == IF n > 1 /\ 4 * n * (n * sq - sum * sum) > (n - 1) * sum * sum
               THEN <<"HIGH_VARIABILITY">>
               ELSE <<>>
        con == IF \E i \in 1..Len(rep.errors) : MentionsConnection(rep.errors[i])
               THEN <<"CONNECTION_ISSUES">>
               ELSE <<>>
        all == rt \o sr \o tp \o var \o con
    IN  IF Len(all) = 0 THEN <<"NO_MAJOR_BOTTLENECKS">> ELSE all

\* capacity_recommendations(report, test_type)
CapacityRecommendations(rep, test_type) ==
    IF Len(rep.response_times) = 0 THEN [error |-> "No data available"]
    ELSE
    LET n   == Len(rep.response_times)
        sum == SumSeq(rep.response_times)
        ok  == rep.successful_requests
        tot == rep.total_requests
        rps == rep.requests_per_second
    IN  [current_capacity |->
            IF test_type # "concurrent" THEN "none"
            ELSE IF 100 * ok >= 95 * tot /\ sum < 10 * n THEN "healthy"
            ELSE IF 100 * ok >= 90 * tot THEN "struggling"
            ELSE "overloaded",
         scaling_recommendations |->
            (IF sum > 10 * n
             THEN <<"horizontal scaling", "load balancing">> ELSE <<>>)
            \o (IF 100 * ok < 95 * tot
                THEN <<"server resources", "database connections">>
                ELSE <<>>),
         optimization_suggestions |->
            (IF sum > 5 * n
             THEN <<"profile", "caching", "database queries">> ELSE <<>>)
            \o (IF rps.num < 20 * rps.den
                THEN <<"asynchronous processing", "connection pooling">>
                ELSE <<>>)]

\* sorted(results, key=timestamp): a stable sort
SortedByTimestamp(results) ==
    LET n == Len(results)
        rank(i) == Cardinality({j \in 1..n :
                      \/ results[j].timestamp < results[i].timestamp
                      \/ /\ results[j].timestamp = results[i].timestamp
                         /\ j < i}) + 1
    IN  [k \in 1..n |-> results[CHOOSE i \in 1..n : rank(i) = k]]

Min(a, b) == IF a <= b THEN a ELSE b

\* analyze_performance_trends with `>=` and `<=` in the latency trend
AnalyzeTrendsInclusive(results) ==
    IF Len(results) = 0 THEN [trend |-> "empty"]
    ELSE
    LET sorted   == SortedByTimestamp(results)
        n        == Len(sorted)
        start    == sorted[1].timestamp
        duration == sorted[n].timestamp - start
    IN  IF duration < 10 THEN [trend |-> "insufficient_data"]
        ELSE
        LET num_buckets == Min(10, duration \div 10)
            idx(r) == Min(((r.timestamp - start) * num_buckets) \div duration,
                          num_buckets - 1)
            bucket(b) == {i \in 1..n : idx(sorted[i]) = b}
            used == {b \in 0..(num_buckets - 1) : bucket(b) # {}}
        IN  IF Cardinality(used) < 2 THEN [trend |-> "insufficient_data"]
            ELSE
            LET first == CHOOSE b \in used : \A c \in used : b <= c
                last  == CHOOSE b \in used : \A c \in used : c <= b
                rtsum(b) == SumSeq([k \in 1..Cardinality(bucket(b)) |->
                              LET i == CHOOSE i \in bucket(b) :
                                         Cardinality({j \in bucket(b) : j < i}) = k - 1
                              IN  sorted[i].response_time])
                cnt(b) == Cardinality(bucket(b))
                ok(b)  == Cardinality({i \in bucket(b) :
                                          sorted[i].status_code = 200})
                fs == rtsum(first)
                fc == cnt(first)
                ls == rtsum(last)
                lc == cnt(last)
            IN  [trend |-> "computed",
                 response_time_trend |->
                    IF 2 * ls * fc >= 3 * fs * lc THEN "degrading"
                    ELSE IF 5 * ls * fc <= 4 * fs * lc THEN "improving"
                    ELSE "stable",
                 success_rate_trend |->
                    IF 100 * ok(last) * fc < (100 * ok(first) - 10 * fc) * lc
                    THEN "degrading"
                    ELSE IF 100 * ok(last) * fc > (100 * ok(first) + 10 * fc) * lc
                    THEN "improving"
                    ELSE "stable",
                 performance_degradation |-> ls * fc > 2 * fs * lc]

\* analyze_performance_trends(results)
AnalyzeTrends(results) ==
    IF Len(results) = 0 THEN [trend |-> "empty"]
    ELSE
    LET sorted   == SortedByTimestamp(results)
        n        == Len(sorted)
        start    == sorted[1].timestamp
        duration == sorted[n].timestamp - start
    IN  IF duration < 10 THEN [trend |-> "insufficient_data"]
        ELSE
        LET num_buckets == Min(10, duration \div 10)
            idx(r) == Min(((r.timestamp - start) * num_buckets) \div duration,
                          num_buckets - 1)
            bucket(b) == {i \in 1..n : idx(sorted[i]) = b}
            used == {b \in 0..(num_buckets - 1) : bucket(b) # {}}
        IN  IF Cardinality(used) < 2 THEN [trend |-> "insufficient_data"]
            ELSE
            LET first == CHOOSE b \in used : \A c \in used : b <= c
                last  == CHOOSE b \in used : \A c \in used : c <= b
                rtsum(b) == SumSeq([k \in 1..Cardinality(bucket(b)) |->
                              LET i == CHOOSE i \in bucket(b) :
                                         Cardinality({j \in bucket(b) : j < i}) = k - 1
                              IN  sorted[i].response_time])
                cnt(b) == Cardinality(bucket(b))
                ok(b)  == Cardinality({i \in bucket(b) :
                                          sorted[i].status_code = 200})
                fs == rtsum(first)
                fc == cnt(first)
                ls == rtsum(last)
                lc == cnt(last)
            IN  [trend |-> "computed",
                 response_time_trend |->
                    IF 2 * ls * fc > 3 * fs * lc THEN "degrading"
                    ELSE IF 5 * ls * fc < 4 * fs * lc THEN "improving"
                    ELSE "stable",
                 success_rate_trend |->
                    IF 100 * ok(last) * fc < (100 * ok(first) - 10 * fc) * lc
                    THEN "degrading"
                    ELSE IF 100 * ok(last) * fc > (100 * ok(first) + 10 * fc) * lc
                    THEN "improving"
                    ELSE "stable",
                 performance_degradation |-> ls * fc > 2 * fs * lc]

\* test_name that main() passes for each driver
TestName == CASE mode = "sequential" -> "Sequential Test"
              [] mode = "concurrent" -> "Concurrent Test"
              [] mode = "ramp"       -> "Ramp-up Test"

\* print_enhanced_report(report, test_name), as main() calls it on the report
\* a driver returned: the success rate is computed first, by dividing by
\* total_requests (ZeroDivisionError on a report without requests)
PrintEnhancedReport ==
    /\ pc = "done"
    /\ IF report.total_requests = 0
       THEN /\ raised' = "ZeroDivisionError"
            /\ pc' = "print_raised"
            /\ analysis' = analysis
       ELSE /\ analysis' =
                [done |-> TRUE,
                 grade |-> PerformanceGrade(SumSeq(report.response_times),
                                            Len(report.response_times),
                                            report.successful_requests,
                                            report.total_requests,
                                            report.requests_per_second),
                 bottlenecks |-> IdentifyBottlenecks(report),
                 recommendations |-> CapacityRecommendations(report, TestName),
                 trends |-> AnalyzeTrends(report.results)]
            /\ pc' = "analysed"
            /\ raised' = raised
    /\ actor' = "main"
    /\ UNCHANGED <<mode, args, second, report, futures, pool, now,
                   issued, levels, batches, plan>>


Next ==
    \/ Start
    \/ SeqIssue
    \/ SeqRecord
    \/ ConcSubmit
    \/ RampSubmit
    \/ SustainSubmit
    \/ \E i \in 1..Len(futures) : WorkerStart(i)
    \/ \E i \in 1..Len(futures) : WorkerReturn(i)
    \/ \E i \in 1..Len(futures) : Collect(i)
    \/ BatchEnd
    \/ Finish
    \/ PrintEnhancedReport

Spec == Init /\ [][Next]_vars


\* every step that can be taken is eventually taken: the orchestrator and
\* the pool threads are scheduled, and a sleep ends
FairSpec == Spec /\ WF_vars(Next)

\* ------------------------------------------------------------------------
\* The ramp of ramp_up_test on its own: the loop of phase 1 with the batch
\* left out, for every max_users and ramp_duration up to the level bounds
\* ------------------------------------------------------------------------

LevelArgs ==
    { [NoArgs EXCEPT !.max_users = u, !.ramp_duration = r] :
        u \in 1..MaxLevelUsers, r \in 1..MaxLevelRamp }

LevelInit ==
    /\ mode = "ramp_levels"
    /\ args \in LevelArgs
    /\ pc = "ramp_loop"
    /\ second = 0
    /\ report = EmptyReport
    /\ futures = <<>>
    /\ pool = 0
    /\ now = 0
    /\ raised = ""
    /\ analysis = [done |-> FALSE]
    /\ actor = "main"
    /\ issued = 0
    /\ levels = <<>>
    /\ batches = <<>>
    /\ plan = <<>>

\* one pass of `for second in range(ramp_duration)`: current_users is
\* computed and the loop variable steps
LevelStep ==
    /\ mode = "ramp_levels"
    /\ pc = "ramp_loop"
    /\ levels' = Append(levels, CurrentUsers(args.max_users,
                                             args.ramp_duration, second))
    /\ second' = second + 1
    /\ pc' = IF second + 1 < args.ramp_duration THEN "ramp_loop" ELSE "ramp_end"
    /\ UNCHANGED <<mode, args, report, futures, pool, now, raised, analysis,
                   actor, issued, batches, plan>>

LevelNext == LevelStep

RampSpec == LevelInit /\ [][LevelNext]_vars

\* ------------------------------------------------------------------------
\* _finalize_report applied twice: a report is filled by _update_report with
\* results of any latency, given an end_time, and finalized two times
\* ------------------------------------------------------------------------

\* the results recorded into the report: answered requests taking 0.1 s,
\* 0.2 s or 0.3 s
FinalizeLatencies == {1, 2, 3}

FinalizeInit ==
    /\ mode = "finalize"
    /\ args = NoArgs
    /\ pc = "fill"
    /\ second = 0
    /\ report = EmptyReport
    /\ futures = <<>>
    /\ pool = 0
    /\ now = 0
    /\ raised = ""
    /\ analysis = [done |-> FALSE]
    /\ actor = "main"
    /\ issued = 0
    /\ levels = <<>>
    /\ batches = <<>>
    /\ plan = <<>>

\* self._update_report(report, result) for one more result
FillReport ==
    /\ pc = "fill"
    /\ issued < MaxFinalized
    /\ \E latency \in FinalizeLatencies :
          report' = UpdateReport(report,
                        [status_code |-> 200, response_time |-> latency,
                         timestamp |-> now, error |-> "",
                         id |-> issued + 1, batch |-> 0])
    /\ issued' = issued + 1
    /\ UNCHANGED <<mode, args, pc, second, futures, pool, now, raised,
                   analysis, actor, levels, batches, plan>>

\* report.end_time = time.time(); self._finalize_report(report), at the
\* start time of the run or half a second after it
FinalizeFirst ==
    /\ pc = "fill"
    /\ \E elapsed \in {0, 5} :
          /\ now' = now + elapsed
          /\ report' = FinalizeReport([report EXCEPT !.end_time = now + elapsed])
    /\ pc' = "finalized"
    /\ UNCHANGED <<mode, args, second, futures, pool, raised, analysis,
                   actor, issued, levels, batches, plan>>

\* self._finalize_report(report) once more, the raw data untouched
FinalizeAgain ==
    /\ pc = "finalized"
    /\ report' = FinalizeReport(report)
    /\ pc' = "refinalized"
    /\ UNCHANGED <<mode, args, second, futures, pool, now, raised, analysis,
                   actor, issued, levels, batches, plan>>

FinalizeNext == FillReport \/ FinalizeFirst \/ FinalizeAgain

FinalizeSpec == FinalizeInit /\ [][FinalizeNext]_vars

\* ------------------------------------------------------------------------
\* The scenario of ten sequential requests, each answered with status 200
\* after 0.1 s, for every pacing delay up to the bound
\* ------------------------------------------------------------------------

ScenarioArgs ==
    { [NoArgs EXCEPT !.num_requests = 10, !.delay = d] : d \in 0..MaxDelay }

ScenarioInit ==
    /\ mode = "sequential"
    /\ args \in ScenarioArgs
    /\ pc = "start"
    /\ second = 0
    /\ report = EmptyReport
    /\ futures = <<>>
    /\ pool = 0
    /\ now = 0
    /\ raised = ""
    /\ analysis = [done |-> FALSE]
    /\ actor = "main"
    /\ issued = 0
    /\ levels = <<>>
    /\ batches = <<>>
    /\ plan = <<>>

\* make_request is entered and the target will answer 200 after 0.1 s
SeqIssueOk ==
    /\ SeqIssue
    /\ futures'[1].behaviour =
          [kind |-> "response", status |-> 200, error |-> "", latency |-> 1]

ScenarioNext ==
    \/ Start
    \/ SeqIssueOk
    \/ SeqRecord
    \/ Finish
    \/ PrintEnhancedReport

ScenarioSpec == ScenarioInit /\ [][ScenarioNext]_vars

\* ------------------------------------------------------------------------
\* analyze_performance_trends on its own: results with latencies of whole
\* seconds, started at whole seconds, in any order.  On these values the
\* float products first * 1.5 and first * 0.8 of the source are exact, so
\* the cross-multiplied comparisons of AnalyzeTrends are the comparisons the
\* source makes.
\* ------------------------------------------------------------------------

\* latencies of 2 s, 3 s, 4 s and 5 s: 3 is 1.5 * 2 and 4 is 0.8 * 5
TrendLatencies == {20, 30, 40, 50}

\* start times of 0 s, 1 s and 2 s
TrendTimes == {0, 10, 20}

TrendInit ==
    /\ mode = "trends"
    /\ args = NoArgs
    /\ pc = "fill"
    /\ second = 0
    /\ report = EmptyReport
    /\ futures = <<>>
    /\ pool = 0
    /\ now = 0
    /\ raised = ""
    /\ analysis = [done |-> FALSE]
    /\ actor = "main"
    /\ issued = 0
    /\ levels = <<>>
    /\ batches = <<>>
    /\ plan = <<>>

\* self._update_report(report, result) for one more answered request
TrendFill ==
    /\ pc = "fill"
    /\ issued < MaxTrendResults
    /\ \E latency \in TrendLatencies, ts \in TrendTimes :
          report' = UpdateReport(report,
                        [status_code |-> 200, response_time |-> latency,
                         timestamp |-> ts, error |-> "",
                         id |-> issued + 1, batch |-> 0])
    /\ issued' = issued + 1
    /\ UNCHANGED <<mode, args, pc, second, futures, pool, now, raised,
                   analysis, actor, levels, batches, plan>>

\* trends = self.analyzer.analyze_performance_trends(report.results)
TrendAnalyze ==
    /\ pc = "fill"
    /\ analysis' = [done |-> TRUE, trends |-> AnalyzeTrends(report.results)]
    /\ pc' = "trended"
    /\ UNCHANGED <<mode, args, second, report, futures, pool, now, raised,
                   actor, issued, levels, batches, plan>>

TrendNext == TrendFill \/ TrendAnalyze

TrendSpec == TrendInit /\ [][TrendNext]_vars

\* ------------------------------------------------------------------------
\* Properties
\* ------------------------------------------------------------------------

\* the driver has returned its report
Returned == pc \in {"done", "analysed", "print_raised"}

\* C1: in every reachable state of every driver run, total_requests equals
\* successful_requests + failed_requests, the number of recorded latencies
\* and the number of recorded results
CountersConsistent ==
    /\ report.total_requests
          = report.successful_requests + report.failed_requests
    /\ report.total_requests = Len(report.response_times)
    /\ report.total_requests = Len(report.results)

\* a report that has recorded both a failure and a success
CountersConsistentWitness ==
    /\ report.failed_requests >= 1
    /\ report.successful_requests >= 1
    /\ report.total_requests >= 2

\* the requests issued so far whose outcome has status code 0
FailedPlanned ==
    {i \in 1..Len(plan) : MakeResult(plan[i], 0, i, 0).status_code = 0}

\* C2: a sequential or concurrent run is never cut short by failed requests:
\* the report it returns holds every one of the num_requests requests exactly
\* once, and failed_requests is the number of status-0 outcomes
NeverAbortsEarly ==
    (mode \in {"sequential", "concurrent"}) =>
        /\ pc # "raised"
        /\ Returned =>
              /\ report.total_requests = args.num_requests
              /\ issued = args.num_requests
              /\ \A id \in 1..args.num_requests :
                    Cardinality({k \in 1..Len(report.results) :
                                    report.results[k].id = id}) = 1
              /\ report.failed_requests = Cardinality(FailedPlanned)

\* a returned report of a run in which the first request failed and a later
\* one was answered
NeverAbortsEarlyWitness ==
    /\ mode \in {"sequential", "concurrent"}
    /\ pc = "done"
    /\ Len(plan) >= 2
    /\ plan[1].kind = "exception"
    /\ report.successful_requests >= 1
    /\ report.failed_requests >= 1

\* C3 (as claimed): every ramp-up run, ramp_duration 0 included, returns a
\* report without raising, with total_requests the sum of the ramp levels
\* plus test_duration * max_users
RampRunCompletes ==
    (mode = "ramp") =>
        /\ pc # "raised"
        /\ Returned =>
              report.total_requests
                  = SumSeq(levels) + args.test_duration * args.max_users

\* C4: in a sequential run the i-th result is the outcome of the i-th request
\* issued, and a request is issued only when every earlier one is recorded
SequentialOrder ==
    (mode = "sequential") =>
        /\ \A i \in 1..Len(report.results) : report.results[i].id = i
        /\ (pc = "seq_wait") =>
              /\ futures[1].id = issued
              /\ Len(report.results) = issued - 1
        /\ (pc # "seq_wait") => Len(report.results) = issued

\* the third request is on the wire, two are recorded
SequentialOrderWitness ==
    /\ mode = "sequential"
    /\ pc = "seq_wait"
    /\ Len(report.results) >= 2

\* C5: ramp-up batches never overlap: the results are ordered by tick, and
\* while a request of a tick is queued, running or unrecorded, every request
\* of every earlier tick is already in the report
BatchesDoNotOverlap ==
    (mode = "ramp") =>
        /\ \A i, j \in 1..Len(report.results) :
              i < j => report.results[i].batch <= report.results[j].batch
        /\ \A i \in 1..Len(futures) :
              /\ futures[i].batch = Len(batches)
              /\ Cardinality({k \in 1..Len(report.results) :
                     report.results[k].batch < futures[i].batch})
                   = SumSeq(SubSeq(batches, 1, futures[i].batch - 1))

\* a request of the second tick is running after a first tick of the ramp
BatchesDoNotOverlapWitness ==
    /\ mode = "ramp"
    /\ Len(batches) >= 2
    /\ Running # {}
    /\ Len(report.results) >= 1

\* C6: in the concurrent and ramp-up drivers only the orchestrating control
\* flow changes the report; a step of a pool thread leaves it as it is
SingleWriter ==
    [][(mode \in {"concurrent", "ramp"} /\ report' # report)
          => actor' = "main"]_vars

\* a pool thread has just stepped while another request is running and the
\* report already holds a result
SingleWriterWitness ==
    /\ mode \in {"concurrent", "ramp"}
    /\ actor = "worker"
    /\ Running # {}
    /\ report.total_requests >= 1

\* what a request came to: status, latency and error text
Outcome(r) == [status_code |-> r.status_code,
               response_time |-> r.response_time, error |-> r.error]

\* the outcomes of a sequence of results, as a multiset
BagOfOutcomes(s) ==
    [o \in {Outcome(s[i]) : i \in 1..Len(s)} |->
        Cardinality({i \in 1..Len(s) : Outcome(s[i]) = o})]

\* the outcomes fixed for the requests of the run, in submission order
PlannedOutcomes == [i \in 1..Len(plan) |-> MakeResult(plan[i], 0, i, 0)]

\* C7: the multiset of outcomes in the report of a concurrent run is the
\* multiset of the outcomes fixed for its requests, whatever the number of
\* workers and the order of completion
OutcomeBagFixed ==
    (mode = "concurrent" /\ Returned) =>
        /\ Len(plan) = args.num_requests
        /\ BagOfOutcomes(report.results) = BagOfOutcomes(PlannedOutcomes)

\* a concurrent run with two workers that recorded a later request first,
\* with different outcomes
OutcomeBagFixedWitness ==
    /\ mode = "concurrent"
    /\ pc = "done"
    /\ args.max_workers >= 2
    /\ Len(report.results) >= 2
    /\ report.results[1].id > report.results[2].id
    /\ report.results[1].status_code # report.results[2].status_code


\* C8 (as claimed): the level of ramp step s (0-indexed) is
\* max(1, floor(max_users * (s+1) / ramp_duration)), the levels never
\* decrease, the last one is max_users, and max_users = 4 with
\* ramp_duration = 4 gives 1, 2, 3, 4
RampLevelsAsSpecified ==
    (mode = "ramp_levels") =>
        /\ \A s \in 1..Len(levels) :
              levels[s] = Max(1, (args.max_users * s) \div args.ramp_duration)
        /\ \A s \in 1..(Len(levels) - 1) : levels[s] <= levels[s + 1]
        /\ (pc = "ramp_end") => levels[Len(levels)] = args.max_users
        /\ (pc = "ramp_end" /\ args.max_users = 4 /\ args.ramp_duration = 4)
              => levels = <<1, 2, 3, 4>>

\* the run is over: the report went through print_enhanced_report, or an
\* exception escaped
Terminated == pc \in {"analysed", "raised", "print_raised"}

\* C9 (as claimed): every run terminates, whatever the target does, a target
\* that never answers included
RunTerminates == <>Terminated

\* C10 (as claimed): print_enhanced_report on a report without requests
\* raises nothing and yields the no-data sentinels
EmptyReportAnalysed ==
    (report.total_requests = 0 /\ pc \in {"analysed", "print_raised"}) =>
        /\ raised = ""
        /\ analysis.done
        /\ analysis.bottlenecks = <<"No response data available">>
        /\ analysis.recommendations = [error |-> "No data available"]
        /\ analysis.trends.trend \in {"empty", "insufficient_data"}


\* C11: finalizing a finalized report again, its raw data unchanged, leaves
\* requests_per_second and slowest_requests as the first finalization set them
FinalizeIdempotent ==
    [][(pc = "finalized" /\ pc' = "refinalized") =>
          /\ report'.requests_per_second = report.requests_per_second
          /\ report'.slowest_requests = report.slowest_requests
          /\ report'.results = report.results
          /\ report'.end_time = report.end_time]_vars

\* a report finalized twice that holds more than five results, not in order
\* of latency, and took time to collect
FinalizeIdempotentWitness ==
    /\ pc = "refinalized"
    /\ Len(report.results) > 5
    /\ report.requests_per_second.num > 0
    /\ Len(report.slowest_requests) = 5
    /\ \E i, j \in 1..Len(report.results) :
          /\ i < j
          /\ report.results[i].response_time < report.results[j].response_time


\* C12 (as claimed): ten sequential requests, all answered 200 after 0.1 s,
\* give a success rate of 100%, a grade of A or A+ and the bottleneck list
\* [NO_MAJOR_BOTTLENECKS], whatever the pacing delay
ScenarioAsClaimed ==
    (pc = "analysed") =>
        /\ report.successful_requests = report.total_requests
        /\ analysis.grade \in {"A (Very Good)", "A+ (Excellent)"}
        /\ analysis.bottlenecks = <<"NO_MAJOR_BOTTLENECKS">>

\* C12 (amended): the success rate is 100% and the grade A or A+ for every
\* delay; the bottleneck list is [NO_MAJOR_BOTTLENECKS] when the run reached
\* 5 requests per second, and [LOW_THROUGHPUT] when it did not
ScenarioByThroughput ==
    (pc = "analysed") =>
        /\ report.total_requests = 10
        /\ report.successful_requests = report.total_requests
        /\ analysis.grade \in {"A (Very Good)", "A+ (Excellent)"}
        /\ (report.requests_per_second.num >= 5 * report.requests_per_second.den)
              => analysis.bottlenecks = <<"NO_MAJOR_BOTTLENECKS">>
        /\ (report.requests_per_second.num < 5 * report.requests_per_second.den)
              => analysis.bottlenecks = <<"LOW_THROUGHPUT">>

\* the scenario run with the default delay of 0.1 s, analysed: two seconds
\* for ten requests, exactly 5 requests per second
ScenarioByThroughputWitness ==
    /\ pc = "analysed"
    /\ args.delay = 1
    /\ report.total_requests = 10
    /\ report.requests_per_second = [num |-> 100, den |-> 20]
    /\ analysis.bottlenecks = <<"NO_MAJOR_BOTTLENECKS">>


\* the results of the report whose start time falls into the first, or the
\* last, non-empty time bucket of the trend analysis
TrendBucketOf(r) ==
    LET times    == {report.results[i].timestamp : i \in 1..Len(report.results)}
        start    == CHOOSE t \in times : \A u \in times : t <= u
        end      == CHOOSE t \in times : \A u \in times : u <= t
        nb       == Min(10, (end - start) \div 10)
    IN  Min(((r.timestamp - start) * nb) \div (end - start), nb - 1)

TrendFirstBucket ==
    SelectSeq(report.results,
              LAMBDA r : \A i \in 1..Len(report.results) :
                            TrendBucketOf(r) <= TrendBucketOf(report.results[i]))

TrendLastBucket ==
    SelectSeq(report.results,
              LAMBDA r : \A i \in 1..Len(report.results) :
                            TrendBucketOf(report.results[i]) <= TrendBucketOf(r))

\* sum of the latencies of a sequence of results
LatencySum(rs) == SumSeq([i \in 1..Len(rs) |-> rs[i].response_time])

\* C13 (as claimed): with two non-empty buckets or more the latency trend is
\* degrading when last >= 1.5 * first, improving when last <= 0.8 * first,
\* stable otherwise, last and first being the average latencies of the last
\* and the first non-empty bucket
TrendInclusive ==
    (pc = "trended" /\ analysis.trends.trend = "computed") =>
        LET fs == LatencySum(TrendFirstBucket)
            fc == Len(TrendFirstBucket)
            ls == LatencySum(TrendLastBucket)
            lc == Len(TrendLastBucket)
        IN  analysis.trends.response_time_trend =
                IF 2 * ls * fc >= 3 * fs * lc THEN "degrading"
                ELSE IF 5 * ls * fc <= 4 * fs * lc THEN "improving"
                ELSE "stable"

\* C13 (amended): the latency trend is degrading when last > 1.5 * first,
\* improving when last < 0.8 * first, stable otherwise; last exactly
\* 1.5 * first and last exactly 0.8 * first are both stable
TrendStrict ==
    (pc = "trended" /\ analysis.trends.trend = "computed") =>
        LET fs == LatencySum(TrendFirstBucket)
            fc == Len(TrendFirstBucket)
            ls == LatencySum(TrendLastBucket)
            lc == Len(TrendLastBucket)
        IN  /\ analysis.trends.response_time_trend =
                  IF 2 * ls * fc > 3 * fs * lc THEN "degrading"
                  ELSE IF 5 * ls * fc < 4 * fs * lc THEN "improving"
                  ELSE "stable"
            /\ (2 * ls * fc = 3 * fs * lc \/ 5 * ls * fc = 4 * fs * lc)
                  => analysis.trends.response_time_trend = "stable"

\* a trend computed from a first bucket averaging 2 s and a last bucket
\* averaging 3 s, exactly 1.5 times as much
TrendStrictWitness ==
    /\ pc = "trended"
    /\ analysis.trends.trend = "computed"
    /\ 2 * LatencySum(TrendLastBucket) * Len(TrendFirstBucket)
          = 3 * LatencySum(TrendFirstBucket) * Len(TrendLastBucket)
    /\ analysis.trends.response_time_trend = "stable"


====
